---- MODULE Spec2Model ----
(***************************************************************************)
(* A model of src/src/force.py: the merge of per-code component            *)
(* dictionaries (ForceComponent.component_info), the catalog builder       *)
(* (create_all_force_components_from_hysys_apea) and the component-set     *)
(* processing (ForceComponentSet.component_set_info, driven by             *)
(* extract_all_force_componentsets).                                       *)
(*                                                                         *)
(* Python values are tagged records, so that a string, a number and None   *)
(* can be compared.  A Python dict is the sequence of its items in         *)
(* insertion order.  A field name is the sequence of its words, and        *)
(* "a in b" on field names is the contiguous-subsequence test.  An         *)
(* exception that leaves a function is recorded by its Python class name.  *)
(***************************************************************************)
EXTENDS Integers, Sequences, FiniteSets, TLC

(***************************************************************************)
(* Bounds of the model.                                                    *)
(***************************************************************************)
MaxFiles == 2
MaxFields == 2

(***************************************************************************)
(* Python values.                                                          *)
(***************************************************************************)
None == [t |-> "none", v |-> 0]
Str(s) == [t |-> "str", v |-> s]
Num(n) == [t |-> "num", v |-> n]
IsNone(x) == x.t = "none"
IsNum(x) == x.t = "num"
IsStr(x) == x.t = "str"
\* a string whose characters matter, as the sequence of its characters
Text(cs) == [t |-> "text", v |-> cs]

(***************************************************************************)
(* Field names, as sequences of words.                                     *)
(***************************************************************************)
KeyComponentName == <<"Component", "Name">>
KeyComponentID == <<"Component", "ID">>
KeyHysysComponentName == <<"HYSYS", "Component", "Name">>
KeyApeaComponentName == <<"APEA", "Component", "Name">>
KeyHysysSource == <<"HYSYS", "Source">>
KeyApeaSource == <<"APEA", "_Source">>
KeyHysysCategory == <<"HYSYS", "Category">>
KeyHysysPower == <<"HYSYS", "Power">>
KeyHysysPowerUnits == <<"HYSYS", "Power", "Units">>
KeyApeaInstalledCost == <<"APEA", "Installed", "Cost", "[USD]">>

\* Python's  sub in key  on strings: sub occurs in key as a contiguous run.
Contains(key, sub) ==
  \E i \in 0..(Len(key) - Len(sub)) : SubSeq(key, i + 1, i + Len(sub)) = sub

(***************************************************************************)
(* Python dicts: a sequence of items [k, v] with distinct keys.            *)
(***************************************************************************)
EmptyDict == <<>>
Item(k, v) == [k |-> k, v |-> v]
DictHas(d, k) == \E i \in 1..Len(d) : d[i].k = k
DictIndex(d, k) == CHOOSE i \in 1..Len(d) : d[i].k = k
\* d.get(k)
DictGet(d, k) == IF DictHas(d, k) THEN d[DictIndex(d, k)].v ELSE None
\* d.setdefault(k, v) : an existing key keeps its value
DictSetDefault(d, k, v) == IF DictHas(d, k) THEN d ELSE Append(d, Item(k, v))
\* d[k] = v : an existing key keeps its position, a new key goes last
DictSet(d, k, v) ==
  IF DictHas(d, k)
    THEN [d EXCEPT ![DictIndex(d, k)] = Item(k, v)]
    ELSE Append(d, Item(k, v))
\* del d[k]
DictDel(d, k) == SelectSeq(d, LAMBDA it : it.k # k)
\* d.update(e)
RECURSIVE DictUpdate(_, _)
DictUpdate(d, e) ==
  IF e = <<>> THEN d
  ELSE DictUpdate(DictSet(d, Head(e).k, Head(e).v), Tail(e))
\* OrderedDict.move_to_end(k, last=False), for a key that is present
MoveToFront(d, k) == <<Item(k, DictGet(d, k))>> \o DictDel(d, k)
DictKeys(d) == [i \in 1..Len(d) |-> d[i].k]
KeySet(d) == {d[i].k : i \in 1..Len(d)}

SeqRange(s) == {s[i] : i \in 1..Len(s)}
SeqsUpTo(S, n) == UNION {[1..m -> S] : m \in 0..n}

\* The dicts that give some of the keys of  keys  (in that order) a value
\* from  vals[key].
RECURSIVE DictsOver(_, _)
DictsOver(keys, vals) ==
  IF keys = <<>> THEN {EmptyDict}
  ELSE LET rest == DictsOver(Tail(keys), vals)
       IN  rest \cup {<<Item(Head(keys), v)>> \o r : v \in vals[Head(keys)], r \in rest}

(***************************************************************************)
(* State.                                                                  *)
(*   pc           where the running entry point stands                     *)
(*   exc          the class of the exception that left it, "none" if none  *)
(*   printed      what it printed, as a sequence of messages               *)
(*   codes_files  ForceComponent.codes_files, each file by the dict it     *)
(*                holds                                                    *)
(*   force_dict   the value component_info returned                        *)
(*   comps_lists  list_of_lists_of_comps_from_multiple_codes               *)
(*   force_dicts_list_1  the merged dict of each 'Component ID' group      *)
(*   force_dicts_list_2  the restructured FORCE components                 *)
(*   group_index  the position of the restructuring loop                   *)
(*   output_files the FORCE_Components folder: file name -> dumped dict    *)
(*   component_dicts_list  the catalog given to the component sets         *)
(*   setfiles     how many Setfile*.txt the sets folder lists              *)
(*   set_index    the position of the loop over them                       *)
(*   frame        the locals of the latest call of component_set_info      *)
(*   written      the set files whose componentSet file was written        *)
(***************************************************************************)
VARIABLES pc, exc, printed, codes_files, force_dict,
          comps_lists, force_dicts_list_1, force_dicts_list_2, group_index, output_files,
          component_dicts_list, setfiles, set_index, frame, written

(***************************************************************************)
(* ForceComponent.component_info                                           *)
(***************************************************************************)
\* force_dict = {} ; for dict in dict_list: force_dict.update(dict)
RECURSIVE MergeDicts(_)
MergeDicts(dict_list) ==
  IF dict_list = <<>> THEN EmptyDict
  ELSE DictUpdate(MergeDicts(SubSeq(dict_list, 1, Len(dict_list) - 1)),
                  dict_list[Len(dict_list)])

\* the keys of the merged dict that contain 'Component Name', in dict order
RedundantKeys(d) ==
  SelectSeq(DictKeys(d), LAMBDA k : Contains(k, KeyComponentName))

\* the values found under those keys
AvailableComponentsNames(d) ==
  [i \in 1..Len(RedundantKeys(d)) |-> DictGet(d, RedundantKeys(d)[i])]

\* for key in redundant_keys: del force_dict[key]
RECURSIVE DelKeys(_, _)
DelKeys(d, keys) ==
  IF keys = <<>> THEN d ELSE DelKeys(DictDel(d, Head(keys)), Tail(keys))

\* a printed line: its text and the value it names
Message(text, about) == [msg |-> text, about |-> about]

Returned(value, out) == [exc |-> "none", value |-> value, printed |-> out]
Raised(class, out) == [exc |-> class, value |-> EmptyDict, printed |-> out]

\* available_components_names[1] : the SECOND name of the list
PickedNameIndex == 2

ComponentInfo(files) ==
  LET merged == MergeDicts(files)
      redundant_keys == RedundantKeys(merged)
      names == AvailableComponentsNames(merged)
  IN  IF Cardinality(SeqRange(names)) > 1
        \* the branch prints and binds no force_component_name: line 80 raises
        THEN Raised("UnboundLocalError", <<Message("names are not similar", None)>>)
      ELSE IF Len(names) < PickedNameIndex
        THEN Raised("IndexError", <<>>)
      ELSE LET named == DictSet(merged, KeyComponentName, names[PickedNameIndex])
               pruned == DelKeys(named, redundant_keys)
           IN  IF ~DictHas(pruned, KeyComponentName)
                 \* move_to_end of a key the loop above deleted
                 THEN Raised("KeyError", <<>>)
                 ELSE Returned(MoveToFront(pruned, KeyComponentName), <<>>)

(***************************************************************************)
(* create_all_force_components_from_hysys_apea                             *)
(***************************************************************************)
Dict(d) == [t |-> "dict", v |-> d]
IsDict(x) == x.t = "dict"

\* [item for sublist in list_of_lists for item in sublist]
RECURSIVE Flatten(_)
Flatten(ll) == IF ll = <<>> THEN <<>> ELSE Head(ll) \o Flatten(Tail(ll))

\* available_comps: dict.get("Component ID") of every record
AvailableComps(flat) == [i \in 1..Len(flat) |-> DictGet(flat[i], KeyComponentID)]

\* the records whose "Component ID" is comp, in the order of the flat list
SameNameComps(flat, comp) ==
  SelectSeq(flat, LAMBDA d : DictGet(d, KeyComponentID) = comp)

\* the orders in which  for comp in set(available_comps)  can visit the
\* identifiers: the iteration order of a set of strings is not fixed
SetIterations(S) == {s \in [1..Cardinality(S) -> S] : SeqRange(s) = S}

\* force_dicts_list_1: each group, merged in the order of the flat list
MergedGroups(flat, order) ==
  [i \in 1..Len(order) |-> MergeDicts(SameNameComps(flat, order[i]))]

\* str(x) of a value used in the 'Sources' text
PyStr(x) == IF IsNone(x) THEN Str("None") ELSE x

AnyKeyContains(d, word) == \E k \in KeySet(d) : Contains(k, <<word>>)

KeyApeaEquipmentCost == <<"APEA", "Equipment", "Cost", "[USD]">>
KeyApeaEquipmentWeight == <<"APEA", "Equipment", "Weight", "[LBS]">>
KeyApeaTotalInstalledWeight == <<"APEA", "Total", "Installed", "Weight", "[LBS]">>

APEA_dict(d) ==
  [EquipmentCost |-> DictGet(d, KeyApeaEquipmentCost),
   InstalledCost |-> DictGet(d, KeyApeaInstalledCost),
   EquipmentWeight |-> DictGet(d, KeyApeaEquipmentWeight),
   TotalInstalledWeight |-> DictGet(d, KeyApeaTotalInstalledWeight)]

HYSYS_dict(d) ==
  [Category |-> DictGet(d, KeyHysysCategory),
   Power |-> DictGet(d, KeyHysysPower),
   PowerUnits |-> DictGet(d, KeyHysysPowerUnits)]

\* dict[x] for x in ["Component Name", "Component ID"] raises KeyError
RestructureRaises(d) == ~DictHas(d, KeyComponentName) \/ ~DictHas(d, KeyComponentID)

\* new_force_dict; a key the dict lacks reads as None, as dict.get gives it
NewForceDict(d) ==
  [Name |-> DictGet(d, KeyComponentName),
   ID |-> DictGet(d, KeyComponentID),
   Sources |-> <<PyStr(DictGet(d, KeyHysysSource)), PyStr(DictGet(d, KeyApeaSource))>>,
   APEA |-> IF AnyKeyContains(d, "APEA") THEN Dict(APEA_dict(d)) ELSE None,
   HYSYS |-> IF AnyKeyContains(d, "HYSYS") THEN Dict(HYSYS_dict(d)) ELSE None]

\* str(dict.get("Component ID")).replace(" ", "").replace('/', '_') + ".txt"
IdText(id) == IF IsNone(id) THEN <<"N", "o", "n", "e">> ELSE id.v
OutputFile(id) ==
  LET kept == SelectSeq(IdText(id), LAMBDA c : c # " ")
  IN  [i \in 1..Len(kept) |-> IF kept[i] = "/" THEN "_" ELSE kept[i]] \o <<".txt">>

\* for dict in force_dicts_list_2: json.dump(dict, open(output_file, 'w'))
RECURSIVE Dump(_, _)
Dump(folder, comps) ==
  IF comps = <<>> THEN folder
  ELSE Dump(DictSet(folder, OutputFile(Head(comps).ID), Head(comps)), Tail(comps))

(***************************************************************************)
(* ForceComponentSet.component_set_info: membership (lines 119-170)        *)
(***************************************************************************)
List(l) == [t |-> "list", v |-> l]
IsList(x) == x.t = "list"

\* comp.get('HYSYS') is truthy
HasHysys(comp) == IsDict(comp.HYSYS)

\* available_components, available_component_types (lines 119-126)
AvailableComponents(catalog) ==
  LET with == SelectSeq(catalog, HasHysys)
  IN  [i \in 1..Len(with) |-> with[i].Name]
AvailableComponentTypes(catalog) ==
  LET with == SelectSeq(catalog, HasHysys)
  IN  [i \in 1..Len(with) |-> with[i].HYSYS.v.Category]

\* the locals of component_set_info while it selects and filters;  exc  is
\* the exception that ended it, if any, and  at  the statement that raised it
NoSelection ==
  [exc |-> "none", at |-> "none", comps |-> <<>>, powers |-> <<>>, units |-> <<>>,
   costs |-> <<>>, excluded |-> <<>>, out |-> <<>>]

\* lines 145-150 and 165-170: power, unit, then (comp.get('APEA')).get(...),
\* which raises AttributeError on a component without 'APEA'
AppendMeasurements(st, comp) ==
  LET measured == [st EXCEPT !.powers = Append(@, comp.HYSYS.v.Power),
                             !.units = Append(@, comp.HYSYS.v.PowerUnits)]
  IN  IF ~IsDict(comp.APEA)
        THEN [measured EXCEPT !.exc = "AttributeError", !.at = "membership"]
        ELSE [measured EXCEPT !.costs = Append(@, comp.APEA.v.InstalledCost)]

\* lines 139-150: every component of the category, in catalog order
RECURSIVE IncludeCategory(_, _, _)
IncludeCategory(st, catalog, type) ==
  IF catalog = <<>> \/ st.exc # "none" THEN st
  ELSE LET comp == Head(catalog)
           next == IF HasHysys(comp) /\ comp.HYSYS.v.Category = type
                     THEN AppendMeasurements([st EXCEPT !.comps = Append(@, comp.Name)], comp)
                     ELSE st
       IN  IncludeCategory(next, Tail(catalog), type)

\* lines 134-150: for type in included_types
RECURSIVE IncludeCategories(_, _, _)
IncludeCategories(st, catalog, types) ==
  IF types = <<>> \/ st.exc # "none" THEN st
  ELSE LET type == Head(types)
           next == IF type \notin SeqRange(AvailableComponentTypes(catalog))
                     THEN [st EXCEPT !.out = Append(@, Message("category does not exist", type))]
                     ELSE IncludeCategory(st, catalog, type)
       IN  IncludeCategories(next, catalog, Tail(types))

\* lines 161-170: the measurements of every component of that name
RECURSIVE IncludeNamed(_, _, _)
IncludeNamed(st, catalog, comp_name) ==
  IF catalog = <<>> \/ st.exc # "none" THEN st
  ELSE LET comp == Head(catalog)
           next == IF HasHysys(comp) /\ comp.Name = comp_name
                     THEN AppendMeasurements(st, comp)
                     ELSE st
       IN  IncludeNamed(next, Tail(catalog), comp_name)

\* lines 155-170: for comp_name in included_names; the name is appended once
RECURSIVE IncludeNames(_, _, _)
IncludeNames(st, catalog, names) ==
  IF names = <<>> \/ st.exc # "none" THEN st
  ELSE LET comp_name == Head(names)
           next == IF comp_name \notin SeqRange(AvailableComponents(catalog))
                     THEN [st EXCEPT !.out = Append(@, Message("component does not exist", comp_name))]
                     ELSE IncludeNamed([st EXCEPT !.comps = Append(@, comp_name)],
                                       catalog, comp_name)
       IN  IncludeNames(next, catalog, Tail(names))

\* lines 127-170
Membership(catalog, set_file) ==
  LET byCategory == IF IsList(set_file.IncludedCategories)
                      THEN IncludeCategories(NoSelection, catalog, set_file.IncludedCategories.v)
                      ELSE NoSelection
  IN  IF IsList(set_file.IncludedComponents)
        THEN IncludeNames(byCategory, catalog, set_file.IncludedComponents.v)
        ELSE byCategory

(***************************************************************************)
(* component_set_info: the validity rules (lines 173-192)                  *)
(***************************************************************************)
KnownUnits == {Str("kW"), Str("MW")}

\* float(x): the class it raises, "none" for a number
FloatRaises(x) ==
  IF IsNum(x) THEN "none" ELSE IF IsStr(x) THEN "ValueError" ELSE "TypeError"

Exclude(st, i, why) ==
  [st EXCEPT !.excluded = Append(@, i),
             !.out = Append(@, Message(why, st.comps[i]))]

\* lines 175-177:  float(power) <= 0 or power == "unknown"
PowerRule(st, i) ==
  IF FloatRaises(st.powers[i]) # "none"
    THEN [st EXCEPT !.exc = FloatRaises(st.powers[i]), !.at = "power rule"]
  ELSE IF st.powers[i].v <= 0
    THEN Exclude(st, i, "excluded: unknown or non-positive power value")
  ELSE st

\* lines 178-180
UnitRule(st, i) ==
  IF st.exc # "none" THEN st
  ELSE IF st.units[i] \notin KnownUnits
    THEN Exclude(st, i, "excluded: unknown power unit")
  ELSE st

\* lines 181-183:  cost <= 0  raises TypeError unless cost is a number
CostRule(st, i) ==
  IF st.exc # "none" THEN st
  ELSE IF ~IsNum(st.costs[i]) THEN [st EXCEPT !.exc = "TypeError", !.at = "cost rule"]
  ELSE IF st.costs[i].v <= 0
    THEN Exclude(st, i, "excluded: non-positive cost")
  ELSE st

\* lines 174-183: for i in range(len(all_included_components))
RECURSIVE ValidityRules(_, _)
ValidityRules(st, i) ==
  IF i > Len(st.comps) \/ st.exc # "none" THEN st
  ELSE ValidityRules(CostRule(UnitRule(PowerRule(st, i), i), i), i + 1)

\* lines 186-192: the positions that were not excluded
KeptIndices(st) ==
  SelectSeq([i \in 1..Len(st.comps) |-> i], LAMBDA i : i \notin SeqRange(st.excluded))
Kept(st, list) == [n \in 1..Len(KeptIndices(st)) |-> list[KeptIndices(st)[n]]]


(***************************************************************************)
(* component_set_info: common unit, reference driver, fit, report          *)
(* (lines 194-268)                                                         *)
(***************************************************************************)
Count(list, x) == Cardinality({i \in 1..Len(list) : list[i] = x})

\* max(set(units), key=units.count): the first most frequent unit in the
\* iteration order of the set, which is not fixed for strings
CommonUnits(units) ==
  {u \in SeqRange(units) : \A w \in SeqRange(units) : Count(units, w) <= Count(units, u)}

\* 1000 * power, and 0.001 * power = power / 1000
KiloFactor == 1000
MilliDivisor == 1000

\* updated_powers_same_unit[i], counted in 1/MilliDivisor of the common unit
SameUnit(power, unit, common_unit) ==
  IF unit # common_unit
    THEN IF common_unit = Str("kW") THEN KiloFactor * power.v * MilliDivisor
         ELSE IF common_unit = Str("MW") THEN power.v
         ELSE 0
    ELSE power.v * MilliDivisor

SeqMin(list) == CHOOSE x \in SeqRange(list) : \A y \in SeqRange(list) : x <= y
\* max(list)
SeqMax(list) == CHOOSE x \in SeqRange(list) : \A y \in SeqRange(list) : y <= x

\* p / reference_driver, as the fraction <<p, reference_driver>>
CapacityRatio(same_unit, reference_driver) ==
  [i \in 1..Len(same_unit) |-> <<same_unit[i], reference_driver>>]

\* scipy's curve_fit of two parameters: TypeError with fewer points than
\* parameters, else the optimum or RuntimeError (no convergence)
NumFitParameters == 2
CurveFitOutcomes(points) ==
  IF Len(points) < NumFitParameters THEN {"TypeError"} ELSE {"none", "RuntimeError"}

\* line 265
MinComponents == 3

\* the locals of a call that ended in the membership or validity loops
EarlyFrame(set_file, st) ==
  [exc |-> st.exc, at |-> st.at, out |-> st.out, set_file |-> set_file,
   all_included_components |-> st.comps, all_included_powers |-> st.powers,
   all_included_power_units |-> st.units, all_included_installed_costs |-> st.costs,
   excluded_components_indices |-> st.excluded,
   updated_components_set |-> <<>>, updated_powers |-> <<>>,
   updated_power_units |-> <<>>, updated_costs |-> <<>>,
   common_unit |-> None, updated_powers_same_unit |-> <<>>,
   reference_driver |-> 0, capacity_ratio |-> <<>>, comp_set_info_dict |-> None]

\* lines 186-192
FilteredFrame(set_file, st) ==
  [EarlyFrame(set_file, st) EXCEPT
     !.updated_components_set = Kept(st, st.comps),
     !.updated_powers = Kept(st, st.powers),
     !.updated_power_units = Kept(st, st.units),
     !.updated_costs = Kept(st, st.costs)]

\* lines 195-268 for one iteration order of the set of units and one
\* outcome of curve_fit
FittedFrame(f, unit, fit) ==
  LET same_unit == [i \in 1..Len(f.updated_powers) |->
                      SameUnit(f.updated_powers[i], f.updated_power_units[i], unit)]
      driver == SeqMax(same_unit)
      normalized == [f EXCEPT !.common_unit = unit,
                              !.updated_powers_same_unit = same_unit,
                              !.reference_driver = driver,
                              !.capacity_ratio = CapacityRatio(same_unit, driver)]
      n == Len(f.updated_components_set)
      included == Append(f.out, Message("the components set includes", Num(n)))
  IN  IF fit # "none" THEN [normalized EXCEPT !.exc = fit, !.at = "curve_fit"]
      ELSE [normalized EXCEPT
              !.comp_set_info_dict =
                 Dict([SetName |-> f.set_file.SetName,
                       IncludedComponents |-> f.updated_components_set,
                       ReferenceDriver |-> driver,
                       ReferenceDriverPowerUnits |-> unit]),
              !.out = IF n < MinComponents
                        THEN Append(included, Message("Warning: the number of included components", Num(n)))
                        ELSE included]

\* every way a call of component_set_info can end
ComponentSetInfo(catalog, set_file) ==
  LET st == ValidityRules(Membership(catalog, set_file), 1)
      f == FilteredFrame(set_file, st)
  IN  IF st.exc # "none" THEN {EarlyFrame(set_file, st)}
      ELSE IF f.updated_power_units = <<>>
        \* max() of an empty set
        THEN {[f EXCEPT !.exc = "ValueError", !.at = "common unit"]}
      ELSE {FittedFrame(f, unit, fit) :
              unit \in CommonUnits(f.updated_power_units),
              fit \in CurveFitOutcomes(f.updated_costs)}


(***************************************************************************)
(* The files a ForceComponent is built from.                               *)
(***************************************************************************)
NameValues == {Str("P1"), Str("P2")}
MergerKeys == <<KeyHysysComponentName, KeyApeaComponentName, KeyComponentName, KeyHysysPower>>
MergerValues ==
  [k \in SeqRange(MergerKeys) |->
     IF k = KeyHysysPower THEN {Num(5), Num(7)} ELSE NameValues]
MergerDicts == {d \in DictsOver(MergerKeys, MergerValues) : Len(d) <= MaxFields}

(***************************************************************************)
(* The records of the two codes.                                           *)
(***************************************************************************)
MaxRecords == 2
IdValues == {Text(<<"A">>), Text(<<"A", " ">>), Text(<<>>)}
HysysKeys == <<KeyComponentName, KeyComponentID, KeyHysysSource, KeyHysysPower>>
ApeaKeys == <<KeyComponentName, KeyComponentID, KeyApeaSource, KeyApeaInstalledCost>>
RecordValues ==
  [k \in SeqRange(HysysKeys) \cup SeqRange(ApeaKeys) |->
     CASE k = KeyComponentName -> NameValues
       [] k = KeyComponentID -> IdValues
       [] k = KeyHysysSource -> {Str("hysys.xlsx")}
       [] k = KeyApeaSource -> {Str("apea.xlsx")}
       [] k = KeyHysysPower -> {Num(5), Num(7)}
       [] OTHER -> {Num(1000)}]
HysysRecords == DictsOver(HysysKeys, RecordValues)
ApeaRecords == DictsOver(ApeaKeys, RecordValues)

(***************************************************************************)
(* The catalogs and the set files.                                         *)
(***************************************************************************)
MaxCatalog == 2
MaxListed == 2
MaxSetfiles == 2

BaselineHysys == [Category |-> Str("Pump"), Power |-> Num(10), PowerUnits |-> Str("kW")]
BaselineApea ==
  [EquipmentCost |-> None, InstalledCost |-> Num(1000),
   EquipmentWeight |-> None, TotalInstalledWeight |-> None]
HysysVariants ==
  {BaselineHysys, [BaselineHysys EXCEPT !.Category = Str("Valve")]}
    \cup {[BaselineHysys EXCEPT !.Power = p] : p \in {Num(0), Num(-5), Str("unknown")}}
    \cup {[BaselineHysys EXCEPT !.PowerUnits = u] : u \in {Str("MW"), Str("hp")}}
ApeaVariants ==
  {[BaselineApea EXCEPT !.InstalledCost = c] : c \in {Num(1000), Num(0), None}}
\* the HYSYS and APEA sub-dicts of a component; one of them may be missing
SubDicts ==
  {<<Dict(h), Dict(BaselineApea)>> : h \in HysysVariants}
    \cup {<<Dict(BaselineHysys), Dict(a)>> : a \in ApeaVariants}
    \cup {<<None, Dict(BaselineApea)>>, <<Dict(BaselineHysys), None>>}

IdDigits == <<"1", "2", "3", "4">>
\* a catalog as create_all_force_components_from_hysys_apea returns it:
\* one component per identifier
Catalog(names, subs) ==
  [i \in 1..Len(names) |->
     [Name |-> names[i],
      ID |-> Text(<<IdDigits[i]>>),
      Sources |-> <<IF IsDict(subs[i][1]) THEN Str("hysys.xlsx") ELSE Str("None"),
                    IF IsDict(subs[i][2]) THEN Str("apea.xlsx") ELSE Str("None")>>,
      APEA |-> subs[i][2],
      HYSYS |-> subs[i][1]]]
\* four pumps of 10, 20, 30 and 40 kW that cost 1000, 1700, 2200 and 2600 USD
PumpNames == <<Str("P1"), Str("P2"), Str("P3"), Str("P4")>>
PumpPowers == <<Num(10), Num(20), Num(30), Num(40)>>
PumpCosts == <<Num(1000), Num(1700), Num(2200), Num(2600)>>
FourPumps ==
  Catalog(PumpNames,
          [i \in 1..Len(PumpNames) |->
             <<Dict([BaselineHysys EXCEPT !.Power = PumpPowers[i]]),
               Dict([BaselineApea EXCEPT !.InstalledCost = PumpCosts[i]])>>])
Catalogs ==
  UNION {{Catalog(names, subs) : names \in [1..n -> NameValues], subs \in [1..n -> SubDicts]} :
         n \in 0..MaxCatalog}
    \cup {FourPumps}

CategoryValues == {Str("Pump"), Str("Valve")}
Listings(S) == {None} \cup {List(l) : l \in SeqsUpTo(S, MaxListed)}
SetFiles ==
  {[SetName |-> Str("set"), IncludedCategories |-> c, IncludedComponents |-> n] :
     c \in Listings(CategoryValues), n \in Listings(NameValues)}

(***************************************************************************)
(* The state of the entry points.                                           *)
(***************************************************************************)
\* the locals before any call of component_set_info
NoFrame ==
  EarlyFrame([SetName |-> None, IncludedCategories |-> None, IncludedComponents |-> None],
             NoSelection)

mergerVars == <<codes_files, force_dict>>
catalogVars == <<comps_lists, force_dicts_list_1, force_dicts_list_2, group_index, output_files>>

setsVars == <<component_dicts_list, setfiles, set_index, frame, written>>

vars == <<pc, exc, printed, codes_files, force_dict,
          comps_lists, force_dicts_list_1, force_dicts_list_2, group_index, output_files,
          component_dicts_list, setfiles, set_index, frame, written>>

\* the state of the entry points that are not running
IdleMerger == codes_files = <<>> /\ force_dict = EmptyDict
IdleCatalog ==
  /\ comps_lists = <<>>
  /\ force_dicts_list_1 = <<>>
  /\ force_dicts_list_2 = <<>>
  /\ group_index = 0
  /\ output_files = EmptyDict
IdleSets ==
  /\ component_dicts_list = <<>>
  /\ setfiles = 0
  /\ set_index = 0
  /\ frame = NoFrame
  /\ written = {}

(***************************************************************************)
(* ForceComponent(codes_files).component_info()                             *)
(***************************************************************************)
InitMerger ==
  /\ pc = "component_info"
  /\ exc = "none"
  /\ printed = <<>>
  /\ codes_files \in SeqsUpTo(MergerDicts, MaxFiles)
  /\ force_dict = EmptyDict
  /\ IdleCatalog
  /\ IdleSets

\* ForceComponent(codes_files).component_info()
RunComponentInfo ==
  /\ pc = "component_info"
  /\ LET r == ComponentInfo(codes_files)
     IN  /\ force_dict' = r.value
         /\ exc' = r.exc
         /\ printed' = r.printed
  /\ pc' = "merged"
  /\ UNCHANGED <<codes_files, catalogVars, setsVars>>

\* the returned dict, saved twice, merged again
RunComponentInfoOnResult ==
  /\ pc = "merged"
  /\ exc = "none"
  /\ codes_files' = <<force_dict, force_dict>>
  /\ LET r == ComponentInfo(<<force_dict, force_dict>>)
     IN  /\ force_dict' = r.value
         /\ exc' = r.exc
         /\ printed' = r.printed
  /\ pc' = "merged_again"
  /\ UNCHANGED <<catalogVars, setsVars>>

NextMerger == RunComponentInfo \/ RunComponentInfoOnResult
MergerSpec == InitMerger /\ [][NextMerger]_vars

(***************************************************************************)
(* create_all_force_components_from_hysys_apea(comps_lists, hysys_folder)   *)
(***************************************************************************)
InitCatalog ==
  /\ pc = "create_all"
  /\ exc = "none"
  /\ printed = <<>>
  /\ IdleMerger
  /\ comps_lists \in {ll \in SeqsUpTo(HysysRecords, MaxRecords) \X SeqsUpTo(ApeaRecords, MaxRecords) :
                        Len(ll[1]) + Len(ll[2]) <= MaxRecords}
  /\ force_dicts_list_1 = <<>>
  /\ force_dicts_list_2 = <<>>
  /\ group_index = 0
  /\ output_files = EmptyDict
  /\ IdleSets

\* lines 275-295: flatten, group by "Component ID", merge each group
GroupAndMerge ==
  /\ pc = "create_all"
  /\ LET flat == Flatten(comps_lists)
     IN  \E order \in SetIterations(SeqRange(AvailableComps(flat))) :
           force_dicts_list_1' = MergedGroups(flat, order)
  /\ group_index' = 1
  /\ pc' = "restructure"
  /\ UNCHANGED <<exc, printed, mergerVars, comps_lists, force_dicts_list_2, output_files, setsVars>>

\* lines 298-332: one pass of the loop over force_dicts_list_1: restructure
\* the dict, then dump every component restructured so far
RestructureAndDump ==
  /\ pc = "restructure"
  /\ group_index <= Len(force_dicts_list_1)
  /\ LET d == force_dicts_list_1[group_index]
     IN  IF RestructureRaises(d)
           THEN /\ exc' = "KeyError"
                /\ pc' = "create_all_raised"
                /\ UNCHANGED <<force_dicts_list_2, group_index, output_files>>
           ELSE /\ force_dicts_list_2' = Append(force_dicts_list_2, NewForceDict(d))
                /\ output_files' = Dump(output_files, force_dicts_list_2')
                /\ group_index' = group_index + 1
                /\ UNCHANGED <<exc, pc>>
  /\ UNCHANGED <<printed, mergerVars, comps_lists, force_dicts_list_1, setsVars>>

\* lines 333-335: print the count and return force_dicts_list_2
ReturnComponents ==
  /\ pc = "restructure"
  /\ group_index > Len(force_dicts_list_1)
  /\ printed' = Append(printed, Message("FORCE components are created", Num(Len(force_dicts_list_2))))
  /\ pc' = "create_all_returned"
  /\ UNCHANGED <<exc, mergerVars, catalogVars, setsVars>>

NextCatalog == GroupAndMerge \/ RestructureAndDump \/ ReturnComponents
CatalogSpec == InitCatalog /\ [][NextCatalog]_vars

(***************************************************************************)
(* extract_all_force_componentsets                                         *)
(***************************************************************************)
InitSets ==
  /\ pc = "extract_all"
  /\ exc = "none"
  /\ printed = <<>>
  /\ IdleMerger
  /\ IdleCatalog
  /\ component_dicts_list \in Catalogs
  /\ setfiles \in 0..MaxSetfiles
  /\ set_index = 1
  /\ frame = NoFrame
  /\ written = {}

\* lines 346-357, one pass of the loop: the set file is read and processed
\* by component_set_info, and the componentSet file is written if it returns
ProcessSetfile ==
  /\ pc = "extract_all"
  /\ set_index <= setfiles
  /\ \E set_file \in SetFiles :
       \E f \in ComponentSetInfo(component_dicts_list, set_file) :
         /\ frame' = f
         /\ printed' = f.out
         /\ IF f.exc = "none"
              THEN /\ written' = written \cup {set_index}
                   /\ set_index' = set_index + 1
                   /\ UNCHANGED <<pc, exc>>
              ELSE /\ exc' = f.exc
                   /\ pc' = "extract_all_raised"
                   /\ UNCHANGED <<written, set_index>>
  /\ UNCHANGED <<mergerVars, catalogVars, component_dicts_list, setfiles>>

\* the loop ends
ReturnFromExtractAll ==
  /\ pc = "extract_all"
  /\ set_index > setfiles
  /\ pc' = "extract_all_returned"
  /\ UNCHANGED <<exc, printed, mergerVars, catalogVars, setsVars>>

NextSets == ProcessSetfile \/ ReturnFromExtractAll
SetsSpec == InitSets /\ [][NextSets]_vars

Init == InitMerger \/ InitCatalog \/ InitSets
Next == NextMerger \/ NextCatalog \/ NextSets
Spec == Init /\ [][Next]_vars

(***************************************************************************)
(* CLAIMS                                                                  *)
(***************************************************************************)
\* The values that the fields whose name contains 'Component Name' carry in
\* the source records.
CandidateNames(files) ==
  UNION {{files[i][j].v : j \in {n \in 1..Len(files[i]) :
                                   Contains(files[i][n].k, KeyComponentName)}} :
         i \in 1..Len(files)}

FirstMergeDone == pc = "merged"

\* C1: component_info returns a merged record only when the fields whose
\* name contains "Component Name" carry exactly one distinct value; with no
\* such field it fails with MissingIdentityError, with more than one distinct
\* value it fails with IdentityConflictError.
C1_TypedIdentityErrors ==
  FirstMergeDone =>
    /\ exc = "none" => Cardinality(CandidateNames(codes_files)) = 1
    /\ CandidateNames(codes_files) = {} => exc = "MissingIdentityError"
    /\ Cardinality(CandidateNames(codes_files)) > 1 => exc = "IdentityConflictError"

\* C2: when the fields containing "Component Name" carry exactly one distinct
\* value v (also when a single record carries such a field), component_info
\* returns a mapping whose "Component Name" is v, with no other key
\* containing the marker, and with "Component Name" first.
C2_UniqueNameResolves ==
  (FirstMergeDone /\ Cardinality(CandidateNames(codes_files)) = 1) =>
    /\ exc = "none"
    /\ force_dict # EmptyDict
    /\ force_dict[1].k = KeyComponentName
    /\ {force_dict[1].v} = CandidateNames(codes_files)
    /\ \A k \in KeySet(force_dict) :
         Contains(k, KeyComponentName) => k = KeyComponentName

\* C3: merging is idempotent: component_info on [r, r], r the result of a
\* first merge, succeeds and returns r.
C3_MergeIdempotent ==
  pc = "merged_again" => (exc = "none" /\ force_dict = codes_files[1])

CatalogFinished == pc \in {"create_all_returned", "create_all_raised"}

\* every record carries a non-empty "Component ID"
WellIdentified(flat) ==
  \A i \in 1..Len(flat) :
    DictHas(flat[i], KeyComponentID) /\ DictGet(flat[i], KeyComponentID) # Text(<<>>)

\* the sources (1 = the first list, HYSYS; 2 = the second, APEA) that the
\* 'Sources' text of a component names: a slot that reads "None" names none
NamedSources(c) == {n \in 1..2 : c.Sources[n] # Str("None")}

\* the sources with a record of that identifier
ContributingSources(id) ==
  {n \in 1..Len(comps_lists) :
     \E i \in 1..Len(comps_lists[n]) : DictGet(comps_lists[n][i], KeyComponentID) = id}

\* C4: for every input the catalog builder emits exactly one component per
\* distinct "Component ID", whose sources attribute names exactly the sources
\* that contributed to the group.
C4_OnePerIdentifierWithSources ==
  (CatalogFinished /\ WellIdentified(Flatten(comps_lists))) =>
    /\ pc = "create_all_returned"
    /\ Len(force_dicts_list_2) = Cardinality(SeqRange(AvailableComps(Flatten(comps_lists))))
    /\ \A id \in SeqRange(AvailableComps(Flatten(comps_lists))) :
         \E i \in 1..Len(force_dicts_list_2) : force_dicts_list_2[i].ID = id
    /\ \A i \in 1..Len(force_dicts_list_2) :
         NamedSources(force_dicts_list_2[i]) = ContributingSources(force_dicts_list_2[i].ID)

\* a call of component_set_info has ended, and  frame  holds its locals
SetCalled == frame # NoFrame
\* ... and it got through the membership loops
Selected == SetCalled /\ frame.at # "membership"
\* ... and through the validity rules as well
Filtered == Selected /\ frame.at \notin {"power rule", "cost rule"}

Printed(text, about) == \E i \in 1..Len(frame.out) : frame.out[i] = Message(text, about)
PrintedCount(text) == Cardinality({i \in 1..Len(frame.out) : frame.out[i].msg = text})

\* the capacity value is non-numeric, "unknown", or <= 0
InvalidPower(x) == ~IsNum(x) \/ x.v <= 0

\* C5: a selected component whose power is non-numeric, "unknown" or <= 0 is
\* excluded with the power diagnostic, and the rules go on to the remaining
\* components: the exclusion never ends the set with an error.
C5_InvalidPowerIsExcluded ==
  Selected =>
    \A i \in 1..Len(frame.all_included_components) :
      InvalidPower(frame.all_included_powers[i]) =>
        /\ frame.at # "power rule"
        /\ i \in SeqRange(frame.excluded_components_indices)
        /\ Printed("excluded: unknown or non-positive power value",
                   frame.all_included_components[i])

\* the positions of the selected lists that break a rule
BreaksPowerRule(i) == IsNum(frame.all_included_powers[i]) /\ frame.all_included_powers[i].v <= 0
BreaksUnitRule(i) == frame.all_included_power_units[i] \notin KnownUnits
BreaksCostRule(i) ==
  IsNum(frame.all_included_installed_costs[i]) /\ frame.all_included_installed_costs[i].v <= 0
SelectedPositions == 1..Len(frame.all_included_components)
ValidPositions ==
  SelectSeq([i \in SelectedPositions |-> i],
            LAMBDA i : ~BreaksPowerRule(i) /\ ~BreaksUnitRule(i) /\ ~BreaksCostRule(i))
Picked(list, positions) == [n \in 1..Len(positions) |-> list[positions[n]]]

\* C6: the three rules (power <= 0, unit not kW or MW, cost <= 0) are
\* evaluated for every selected component, each broken rule printing its own
\* diagnostic; the filtered lists are the selected ones, in order, that break
\* no rule.
C6_RulesAreIndependent ==
  Selected =>
    /\ Filtered
    /\ PrintedCount("excluded: unknown or non-positive power value")
         = Cardinality({i \in SelectedPositions : BreaksPowerRule(i)})
    /\ PrintedCount("excluded: unknown power unit")
         = Cardinality({i \in SelectedPositions : BreaksUnitRule(i)})
    /\ PrintedCount("excluded: non-positive cost")
         = Cardinality({i \in SelectedPositions : BreaksCostRule(i)})
    /\ frame.updated_components_set = Picked(frame.all_included_components, ValidPositions)
    /\ frame.updated_powers = Picked(frame.all_included_powers, ValidPositions)
    /\ frame.updated_power_units = Picked(frame.all_included_power_units, ValidPositions)
    /\ frame.updated_costs = Picked(frame.all_included_installed_costs, ValidPositions)


\* the names of the catalog components that a predicate picks, in catalog order
NamesWhere(catalog, Test(_)) ==
  LET picked == SelectSeq(catalog, Test)
  IN  [i \in 1..Len(picked) |-> picked[i].Name]
InCategory(catalog, type) ==
  NamesWhere(catalog, LAMBDA comp : IsDict(comp.HYSYS) /\ comp.HYSYS.v.Category = type)
RECURSIVE ByCategories(_, _)
ByCategories(catalog, types) ==
  IF types = <<>> THEN <<>>
  ELSE InCategory(catalog, Head(types)) \o ByCategories(catalog, Tail(types))
CatalogNames(catalog) == {catalog[i].Name : i \in 1..Len(catalog)}
ByNames(catalog, names) == SelectSeq(names, LAMBDA n : n \in CatalogNames(catalog))
Listed(x) == IF IsList(x) THEN x.v ELSE <<>>

\* C7: the selected list is, first, for each listed category in order the
\* catalog components of that category in catalog order, then each listed
\* name that matches a catalog component; a listed category or name that
\* matches nothing is reported and does not end the set.
C7_SelectionOrder ==
  SetCalled =>
    /\ Selected
    /\ frame.all_included_components =
         ByCategories(component_dicts_list, Listed(frame.set_file.IncludedCategories))
           \o ByNames(component_dicts_list, Listed(frame.set_file.IncludedComponents))
    /\ \A type \in SeqRange(Listed(frame.set_file.IncludedCategories)) :
         InCategory(component_dicts_list, type) = <<>> =>
           Printed("category does not exist", type)
    /\ \A name \in SeqRange(Listed(frame.set_file.IncludedComponents)) :
         name \notin CatalogNames(component_dicts_list) =>
           Printed("component does not exist", name)

\* the most frequent unit of the list, the first met among equals
FirstModalUnit(units) ==
  units[CHOOSE i \in 1..Len(units) :
          /\ units[i] \in CommonUnits(units)
          /\ \A j \in 1..(i - 1) : units[j] \notin CommonUnits(units)]

\* C8: the common unit is the most frequent unit of the filtered list, and
\* among equally frequent units the one met first in the list, so that the
\* same list always gives the same unit.
C8_ModalUnitFirstMet ==
  (SetCalled /\ IsStr(frame.common_unit)) =>
    frame.common_unit = FirstModalUnit(frame.updated_power_units)

\* C9: the data-quality warning is printed whenever fewer than 3 components
\* are left by the validity rules (0, 1 or 2), and not when 3 or more are.
C9_WarningBelowThree ==
  Filtered =>
    (Len(frame.updated_components_set) < 3
       <=> Printed("Warning: the number of included components",
                   Num(Len(frame.updated_components_set))))

\* C10: a failure of the curve fit in one set file leaves that set without a
\* componentSet file and does not keep the other set files from being
\* processed.
C10_FitFailureSparesSiblings ==
  (pc = "extract_all_raised" /\ frame.at = "curve_fit") =>
    /\ set_index \notin written
    /\ set_index = setfiles

\* an identifier that is missing (read as None) or the empty text
NoIdentifier(id) == IsNone(id) \/ id = Text(<<>>)

\* the components written to the output folder
Persisted == {output_files[i].v : i \in 1..Len(output_files)}

\* C11: a source record whose "Component ID" is missing or empty makes the
\* catalog builder fail with MissingIdentifierError; no component is emitted,
\* and none is written to the output folder, for a missing or empty identifier.
C11_MissingIdentifierFails ==
  /\ (CatalogFinished /\ ~WellIdentified(Flatten(comps_lists))) =>
       (pc = "create_all_raised" /\ exc = "MissingIdentifierError")
  /\ \A i \in 1..Len(force_dicts_list_2) : ~NoIdentifier(force_dicts_list_2[i].ID)
  /\ \A c \in Persisted : ~NoIdentifier(c.ID)

\* the fields that fill the two sub-records
HysysFields == {KeyHysysCategory, KeyHysysPower, KeyHysysPowerUnits}
ApeaFields ==
  {KeyApeaEquipmentCost, KeyApeaInstalledCost, KeyApeaEquipmentWeight,
   KeyApeaTotalInstalledWeight}
Supplies(d, fields) == \E k \in fields : DictHas(d, k)

\* C12: in every emitted component the HYSYS sub-record is present only if
\* the merged group had one of "HYSYS Category", "HYSYS Power", "HYSYS Power
\* Units", and the APEA sub-record only if it had one of the four APEA cost
\* and weight fields; a group that has fields of both has both sub-records.
C12_SubRecordNeedsItsFields ==
  \A i \in 1..Len(force_dicts_list_2) :
    LET c == force_dicts_list_2[i]
        d == force_dicts_list_1[i]
    IN  /\ IsDict(c.HYSYS) => Supplies(d, HysysFields)
        /\ IsDict(c.APEA) => Supplies(d, ApeaFields)
        /\ (Supplies(d, HysysFields) /\ Supplies(d, ApeaFields)) =>
             (IsDict(c.HYSYS) /\ IsDict(c.APEA))

\* the last record of the list that has the field
LastWith(records, k) ==
  CHOOSE i \in 1..Len(records) :
    /\ DictHas(records[i], k)
    /\ \A j \in (i + 1)..Len(records) : ~DictHas(records[j], k)

\* every field of every record whose name does not contain "Component Name"
\* is in the merged mapping, with the value of the last record that has it
FollowsLastSource(merged, records) ==
  \A i \in 1..Len(records) :
    \A k \in KeySet(records[i]) :
      ~Contains(k, KeyComponentName) =>
        /\ DictHas(merged, k)
        /\ DictGet(merged, k) = DictGet(records[LastWith(records, k)], k)

\* the records of one "Component ID" group, in the order of the source lists
GroupOf(merged) ==
  SelectSeq(Flatten(comps_lists),
            LAMBDA d : DictGet(d, KeyComponentID) = DictGet(merged, KeyComponentID))

\* two records give the same field, without the marker, different values
Collide(records) ==
  \E i, j \in 1..Len(records) :
    \E k \in KeySet(records[i]) \cap KeySet(records[j]) :
      /\ i < j
      /\ ~Contains(k, KeyComponentName)
      /\ DictGet(records[i], k) # DictGet(records[j], k)

\* C13: merging is last-source-wins: every field whose name does not contain
\* "Component Name" is in the merged mapping with the value of the last
\* record of the list that has it, in the mapping that component_info builds
\* and returns and in the merged mapping of every "Component ID" group of the
\* catalog builder.
C13_LastSourceWins ==
  /\ pc \in {"component_info", "merged"} =>
       FollowsLastSource(MergeDicts(codes_files), codes_files)
  /\ (pc = "merged" /\ exc = "none") => FollowsLastSource(force_dict, codes_files)
  /\ \A i \in 1..Len(force_dicts_list_1) :
       FollowsLastSource(force_dicts_list_1[i], GroupOf(force_dicts_list_1[i]))

\* component_info returned the merge of two files that disagree on a field
C13_Witness == pc = "merged" /\ exc = "none" /\ Collide(codes_files)

\* a group of the catalog builder whose records disagree on a field
C13_GroupWitness ==
  \E i \in 1..Len(force_dicts_list_1) : Collide(GroupOf(force_dicts_list_1[i]))

\* the call got as far as the reference driver
Normalized == SetCalled /\ IsStr(frame.common_unit)

\* a power in kW, and in 1/1000 of the common unit (1/1000 MW is 1 kW)
InKilowatts(power, unit) == IF unit = Str("MW") THEN 1000 * power.v ELSE power.v
InCommonUnit(power, unit) ==
  IF frame.common_unit = Str("MW")
    THEN InKilowatts(power, unit)
    ELSE 1000 * InKilowatts(power, unit)

\* C14: for a non-empty filtered set the reference driver is the maximum of
\* the powers brought to the common unit, every capacity ratio is greater
\* than 0 and at most 1, the component of maximum power has ratio exactly 1,
\* and the report carries that reference driver.
C14_ReferenceDriverIsMax ==
  Normalized =>
    LET n == Len(frame.updated_components_set)
        same_unit == frame.updated_powers_same_unit
        ratio == frame.capacity_ratio
    IN  /\ n > 0 /\ Len(same_unit) = n /\ Len(ratio) = n
        /\ \A i \in 1..n :
             same_unit[i] = InCommonUnit(frame.updated_powers[i], frame.updated_power_units[i])
        /\ \E i \in 1..n : frame.reference_driver = same_unit[i]
        /\ \A i \in 1..n : same_unit[i] <= frame.reference_driver
        /\ \A i \in 1..n :
             /\ ratio[i] = <<same_unit[i], frame.reference_driver>>
             /\ 0 < ratio[i][1] /\ ratio[i][1] <= ratio[i][2]
             /\ same_unit[i] = frame.reference_driver => ratio[i][1] = ratio[i][2]
        /\ frame.exc = "none" =>
             frame.comp_set_info_dict.v.ReferenceDriver = frame.reference_driver

\* the four pumps of 10, 20, 30 and 40 kW were fitted: reference driver 40 kW
C14_Witness ==
  /\ Normalized
  /\ frame.exc = "none"
  /\ frame.updated_powers = PumpPowers
  /\ frame.common_unit = Str("kW")
  /\ frame.reference_driver = 40 * MilliDivisor

\* a set of a kW and a MW component: one power is rescaled, one ratio is
\* below 1
C14_MixedUnits ==
  /\ Normalized
  /\ \E i, j \in 1..Len(frame.updated_power_units) :
       /\ frame.updated_power_units[i] # frame.updated_power_units[j]
       /\ frame.capacity_ratio[i][1] < frame.capacity_ratio[i][2]

\* position i of the four selected lists describes that catalog component
DescribedAt(comp, i) ==
  /\ IsDict(comp.HYSYS) /\ IsDict(comp.APEA)
  /\ frame.all_included_components[i] = comp.Name
  /\ frame.all_included_powers[i] = comp.HYSYS.v.Power
  /\ frame.all_included_power_units[i] = comp.HYSYS.v.PowerUnits
  /\ frame.all_included_installed_costs[i] = comp.APEA.v.InstalledCost

\* C15: after the membership loops the lists of included names, powers,
\* power units and installed costs have the same length, and position i of
\* each holds the value of one and the same catalog component, also when two
\* catalog components share a name or a component is selected by category
\* and by name.
C15_ParallelListsAligned ==
  Selected =>
    /\ Len(frame.all_included_powers) = Len(frame.all_included_components)
    /\ Len(frame.all_included_power_units) = Len(frame.all_included_components)
    /\ Len(frame.all_included_installed_costs) = Len(frame.all_included_components)
    /\ \A i \in 1..Len(frame.all_included_components) :
         \E n \in 1..Len(component_dicts_list) : DescribedAt(component_dicts_list[n], i)

====
